---- MODULE Spec2Model ----
(***************************************************************************)
(* The local grid of jip (src/jip/grids.py): the _GridMaster actor, its    *)
(* job graph, the scheduler and the cascade removal.  One action per       *)
(* message kind handled by _GridMaster.start; every action is one whole    *)
(* iteration of the master loop (receive, dispatch, handler, scheduler).   *)
(* Next to the Master: one Executor (_execute_job, _terminate_process),    *)
(* the LocalCluster facade of one client, and the log paths of one job,    *)
(* each with a specification of its own.                                   *)
(***************************************************************************)
EXTENDS Integers, FiniteSets, Sequences, TLC

\* ----------------------------------------------------------------- bounds
\* number of SUBMIT messages one Master lifetime is fed (ids 1..MaxJobs)
MaxJobs == 3
\* messages a client leaves on the request queue without waiting
MaxPending == 2
\* longest path template of a job
MaxPathLen == 4
\* the `cores` the Master is created with (slots_total)
Cores == 2
\* largest thread count a submitted job asks for: the whole machine
MaxThreads == Cores

JobIds == 1..MaxJobs
\* exit codes an Executor reports: 0 is success, anything else a failure
ExitCodes == {0, 1}
\* dependency id sets the SUBMIT that gets `job_id` can carry: any set of
\* the ids assigned before it (jobs still active or already gone) and the
\* id being assigned, or an id that is not assigned yet
DepSets(job_id) ==
    (SUBSET {d \in JobIds : d <= job_id}) \cup
    {{d} : d \in {x \in JobIds : x = job_id + 1}}

VARIABLES
    queued,           \* _GridMaster.queued: id -> job
    running,          \* _GridMaster.running: id -> job
    slots_available,  \* _GridMaster.slots_available
    wait_mode,        \* _GridMaster.wait_mode (the drain flag)
    current_id,       \* _GridMaster._current_id
    loop,             \* the while loop of start(): "run", "exit" or "fault"
    response,         \* the response queue: replies the facade has not read
    linked            \* history: active id -> the dependencies it was
                      \* registered with as a child when it was submitted

\* the state of one Executor process (_execute_job) and of its subprocess
VARIABLES
    exec_pc,          \* where _execute_job is, or how its process ended
    process,          \* the subprocess of the job: `process` of _execute_job
    result,           \* `result` of _execute_job
    notices,          \* what the Executor has put on the requests queue
    term_pc,          \* where handle_term / _terminate_process is
    probe,            \* probes of the backoff schedule made so far
    signals           \* the signals sent to the subprocess

\* the LocalCluster facade of one client, and the Master seen from it
VARIABLES
    master_process,   \* LocalCluster.master_process: "None" or "Process"
    closed,           \* the facade has closed its two queues
    masters,          \* Master processes alive on the facade's queues
    master_requests,  \* LocalCluster.master_requests: messages not taken
    master_response,  \* LocalCluster.master_response: replies not read
    active,           \* _num_jobs() of that Master
    draining,         \* wait_mode of that Master
    facade_pc,        \* "idle", or the call the client is blocked in
    call              \* the last call of the client and how it came back

\* the log paths of one job
VARIABLES
    submitted,        \* the _Job of the SUBMIT message: its path templates
    stored,           \* the job as the Master has it after _handle_submit
    path_pc,          \* "new", "queued" or "running"
    opened,           \* the paths the Executor of the job has opened
    resolved          \* the last LocalCluster.resolve_log call

mvars == <<queued, running, slots_available, wait_mode, current_id, loop,
           response, linked>>
evars == <<exec_pc, process, result, notices, term_pc, probe, signals>>
fvars == <<master_process, closed, masters, master_requests, master_response,
           active, draining, facade_pc, call>>
pvars == <<submitted, stored, path_pc, opened, resolved>>
vars == <<mvars, evars, fvars, pvars>>

slots_total == Cores

\* ----------------------------------------------------------------- _Job
\* _Job.__init__: a job as the SUBMIT message carries it
NewJob(threads, dependencies) ==
    [threads |-> threads, dependencies |-> dependencies, children |-> {}]

\* an order on the id alone
JobLt_by_id(jobs, a, b) == a < b

\* _Job.__lt__: fewer unresolved dependencies first, lower id breaks ties
JobLt(jobs, a, b) ==
    LET num_deps == Cardinality(jobs[a].dependencies)
        o_deps   == Cardinality(jobs[b].dependencies)
    IN  IF num_deps = o_deps THEN a < b ELSE num_deps < o_deps

\* an empty job map
NoJobs == [x \in {} |-> NewJob(1, {})]

\* del d[k]
Del(d, k) == [x \in (DOMAIN d) \ {k} |-> d[x]]

\* d[k] = v
Put(d, k, v) == [x \in (DOMAIN d) \cup {k} |-> IF x = k THEN v ELSE d[x]]

\* the Master's job graph and slot counter, as the handlers read and write it
Master == [queued |-> queued, running |-> running,
           slots_available |-> slots_available]

\* the ids in queued or running, and the job an active id stands for
Active(m) == DOMAIN m.queued \cup DOMAIN m.running
Job(m, id) ==
    IF id \in DOMAIN m.queued THEN m.queued[id]
    ELSE IF id \in DOMAIN m.running THEN m.running[id]
    ELSE NewJob(1, {})

\* _GridMaster._num_jobs
num_jobs == Cardinality(DOMAIN queued) + Cardinality(DOMAIN running)

\* sum of threads over the jobs of a map
RECURSIVE Threads(_)
Threads(jobs) ==
    IF DOMAIN jobs = {} THEN 0
    ELSE LET k == CHOOSE x \in DOMAIN jobs : TRUE
         IN  jobs[k].threads + Threads(Del(jobs, k))

Min(S) == CHOOSE x \in S : \A y \in S : x <= y

\* ------------------------------------------------------------- scheduler
\* sorted(self.queued.values()): the ids of the jobs in ascending __lt__ order
RECURSIVE SortedJobs(_, _)
SortedJobs(jobs, ids) ==
    IF ids = {} THEN << >>
    ELSE LET first == CHOOSE a \in ids : \A b \in ids \ {a} : JobLt(jobs, a, b)
         IN  <<first>> \o SortedJobs(jobs, ids \ {first})

\* a _run_job that leaves the job in the queue
run_job_keeps(m, job_id) ==
    IF job_id \notin DOMAIN m.queued THEN m
    ELSE [m EXCEPT !.running = Put(m.running, job_id, m.queued[job_id])]

\* _GridMaster._run_job: move the job from queued to running
run_job(m, job_id) ==
    IF job_id \notin DOMAIN m.queued THEN m
    ELSE [m EXCEPT !.running = Put(m.running, job_id, m.queued[job_id]),
                   !.queued  = Del(m.queued, job_id)]

\* a scan that takes a job with one dependency left for resolved
unresolved_but_one(job) == Cardinality(job.dependencies) > 1

\* a scan that never stops at a job with unresolved dependencies
unresolved_ignored(job) == FALSE

\* schedule, `if len(job.dependencies) > 0`: the scan stops at this job
unresolved(job) == Cardinality(job.dependencies) > 0

\* a fit test that only asks for one free slot
fits_one_slot(job, slots) == 1 <= slots

\* schedule, `if job.threads <= self.slots_available`
fits(job, slots) == job.threads <= slots

\* a promotion that always takes one slot
take_one(slots, job) == slots - 1

\* schedule, `self.slots_available -= job.threads`
take(slots, job) == slots - job.threads

\* a completion that gives no slots back
give_nothing(slots, job) == slots

\* _handle_done / _handle_cancel, `self.slots_available += job.threads`
give(slots, job) == slots + job.threads

\* a scheduler that stops after its first promotion
another_pass_never(slots) == FALSE

\* schedule, `if self.slots_available >= 1: self.schedule()`
another_pass(slots) == slots >= 1

\* _GridMaster.schedule: scan the sorted jobs, run the first that fits, and
\* start another pass while slots are left
RECURSIVE schedule(_)
RECURSIVE ScheduleScan(_, _, _)
ScheduleScan(m, sorted_jobs, i) ==
    IF i > Len(sorted_jobs) THEN m
    ELSE LET job_id == sorted_jobs[i]
             job    == m.queued[job_id]
         IN  IF unresolved(job) THEN m
             ELSE IF fits(job, m.slots_available)
                  THEN LET started == run_job(m, job_id)
                           m2 == [started EXCEPT !.slots_available =
                                      take(m.slots_available, job)]
                       IN  IF another_pass(m2.slots_available) THEN schedule(m2)
                           ELSE m2
                  ELSE ScheduleScan(m, sorted_jobs, i + 1)

schedule(m) == ScheduleScan(m, SortedJobs(m.queued, DOMAIN m.queued), 1)

\* ------------------------------------------------------------ the actions
\* the loop of start() takes the next message: the loop is still going and
\* the drain check at the top of the loop did not break it
Receiving == loop = "run" /\ ~(wait_mode /\ num_jobs = 0)

\* the next message is one of the facade's.  LocalCluster.submit and
\* LocalCluster.list block on the response queue right after their request
\* and LocalCluster.wait blocks in join() right after its WAIT, so while a
\* reply is unread or the Master is in wait mode the facade has sent nothing
\* more, and only the Executors' notices (DONE, FAILED) can be next in the
\* requests queue
Requesting == Receiving /\ response = << >> /\ ~wait_mode

\* a key list that stops after the first key
Keys_first(ids) == IF ids = {} THEN << >> ELSE <<Min(ids)>>

\* list(d.keys()): the keys of a map of small integer ids, ascending
RECURSIVE Keys(_)
Keys(ids) ==
    IF ids = {} THEN << >> ELSE <<Min(ids)>> \o Keys(ids \ {Min(ids)})

\* what the Master puts on the response queue: the id of a SUBMIT (an
\* integer, ids start at 1) or the list of a JOBS
IdReply(job_id) == [id |-> job_id, ids |-> << >>]
ListReply(ids) == [id |-> 0, ids |-> ids]

\* an id counter that hands out the current id again
next_id_again(current) == IF current = 0 THEN 1 ELSE current

\* _GridMaster._next_id: increment the current id and return it
next_id(current) == current + 1

\* a SUBMIT that registers the new job with none of its dependencies
link_none(jobs, job_id, dependencies) == jobs

\* _handle_submit, "update children": the new job becomes a child of each
\* of its dependencies found in the map
link(jobs, job_id, dependencies) ==
    [x \in DOMAIN jobs |->
        IF x \in dependencies
        THEN [jobs[x] EXCEPT !.children = @ \cup {job_id}] ELSE jobs[x]]

\* a SUBMIT handler that queues the job and leaves the scheduling to the
\* next completion
handle_submit_unscheduled(m, job_id, job) ==
    [m EXCEPT !.queued = link(Put(m.queued, job_id, job), job_id,
                              job.dependencies),
              !.running = link(m.running, job_id, job.dependencies)]

\* _GridMaster._handle_submit
handle_submit(m, job_id, job) ==
    LET q1 == Put(m.queued, job_id, job)
        m2 == [m EXCEPT !.queued = link(q1, job_id, job.dependencies),
                        !.running = link(m.running, job_id, job.dependencies)]
    IN  IF m2.slots_available >= 1 THEN schedule(m2) ELSE m2

Submit(threads, dependencies) ==
    /\ Requesting
    /\ current_id < MaxJobs
    /\ LET job_id == next_id(current_id)
           m == handle_submit(Master, job_id, NewJob(threads, dependencies))
       IN  /\ current_id' = job_id
           /\ queued' = m.queued
           /\ running' = m.running
           /\ slots_available' = m.slots_available
           /\ response' = Append(response, IdReply(job_id))
           /\ linked' = Put(linked, job_id,
                            {d \in dependencies : job_id \in Job(m, d).children})
    /\ UNCHANGED <<wait_mode, loop>>

\* an update that clears the whole dependency set of each queued child
update_dependencies_all(jobs, job_id, children) ==
    [x \in DOMAIN jobs |->
        IF x \in children
        THEN [jobs[x] EXCEPT !.dependencies = {}] ELSE jobs[x]]

\* an update that drops the job from the dependency set of every job
update_dependencies_everywhere(jobs, job_id, children) ==
    [x \in DOMAIN jobs |-> [jobs[x] EXCEPT !.dependencies = @ \ {job_id}]]

\* _GridMaster._update_dependencies: drop the job from the dependency set of
\* each of its children that is still queued (a missing id is only logged)
update_dependencies(jobs, job_id, children) ==
    [x \in DOMAIN jobs |->
        IF x \in children
        THEN [jobs[x] EXCEPT !.dependencies = @ \ {job_id}] ELSE jobs[x]]

\* depth of recursion at which _remove_children is taken to overflow the
\* interpreter's stack: a chain of distinct queued jobs is shorter, so a
\* recursion this deep is going round a cycle and never returns
RecursionLimit == MaxJobs + 1

\* _GridMaster._remove_children: for every child (ascending, as a set of
\* small ints iterates) that is still queued, remove its children first,
\* detach it from its own children, then delete it.  The result is the
\* queued map and whether the recursion raised.
RECURSIVE remove_children(_, _, _)
remove_children(jobs, children, depth) ==
    IF depth > RecursionLimit THEN [queued |-> jobs, raised |-> TRUE]
    ELSE IF children = {} THEN [queued |-> jobs, raised |-> FALSE]
    ELSE LET c == Min(children)
         IN  IF c \notin DOMAIN jobs
             THEN remove_children(jobs, children \ {c}, depth)
             ELSE LET child == jobs[c]
                      below == remove_children(jobs, child.children, depth + 1)
                  IN  IF below.raised THEN below
                      ELSE remove_children(
                               Del(update_dependencies(below.queued, c,
                                                       child.children), c),
                               children \ {c}, depth)

\* a completion that is treated as a failure whatever its code
cascades_always(state) == TRUE

\* _handle_done, `if state != 0`: the completion is a failure
cascades(state) == state # 0

\* a DONE handler that does not test whether the job is running
handle_done_unchecked(m, job_id, state) ==
    [m |-> schedule([m EXCEPT !.slots_available = give(@, Job(m, job_id)),
                              !.running = Del(@, job_id)]),
     raised |-> FALSE]

\* a DONE handler that does not run the scheduler
handle_done_unscheduled(m, job_id, state) ==
    IF job_id \in DOMAIN m.running
    THEN LET job == m.running[job_id]
             slots == give(m.slots_available, job)
             q1 == update_dependencies(m.queued, job_id, job.children)
             rm == IF cascades(state) THEN remove_children(q1, job.children, 1)
                   ELSE [queued |-> q1, raised |-> FALSE]
         IN  [m |-> [queued |-> rm.queued,
                     running |-> Del(m.running, job_id),
                     slots_available |-> slots],
              raised |-> rm.raised]
    ELSE [m |-> m, raised |-> FALSE]

\* _GridMaster._handle_done; the result carries whether the handler raised
handle_done(m, job_id, state) ==
    IF job_id \in DOMAIN m.running
    THEN LET job == m.running[job_id]
             slots == give(m.slots_available, job)
             q1 == update_dependencies(m.queued, job_id, job.children)
             rm == IF cascades(state) THEN remove_children(q1, job.children, 1)
                   ELSE [queued |-> q1, raised |-> FALSE]
         IN  IF rm.raised
             THEN [m |-> [m EXCEPT !.slots_available = slots,
                                   !.queued = rm.queued],
                   raised |-> TRUE]
             ELSE [m |-> schedule([queued |-> rm.queued,
                                   running |-> Del(m.running, job_id),
                                   slots_available |-> slots]),
                   raised |-> FALSE]
    ELSE [m |-> m, raised |-> FALSE]

\* _GridMaster._handle_failed: the membership test reads self.unning, an
\* attribute the Master does not have, so the handler raises before it
\* touches anything
handle_failed(m, job_id) == [m |-> m, raised |-> TRUE]

\* a CANCEL handler that does not look where the job is
handle_cancel_unchecked(m, job_id) ==
    [m |-> schedule([m EXCEPT !.slots_available = give(@, Job(m, job_id)),
                              !.running = Del(@, job_id),
                              !.queued = Del(@, job_id)]),
     raised |-> FALSE]

\* _handle_cancel, running branch: the jobs whose process the handler
\* terminates and joins
cancel_terminates(m, job_id) ==
    IF job_id \in DOMAIN m.running THEN {job_id} ELSE {}

\* _GridMaster._handle_cancel
handle_cancel(m, job_id) ==
    LET found == job_id \in DOMAIN m.running \/ job_id \in DOMAIN m.queued
        job == IF job_id \in DOMAIN m.running THEN m.running[job_id]
               ELSE m.queued[job_id]
        m1 == IF job_id \in DOMAIN m.running
              THEN [m EXCEPT !.slots_available = give(@, job),
                             !.running = Del(m.running, job_id)]
              ELSE [m EXCEPT !.queued = Del(m.queued, job_id)]
        q1 == update_dependencies(m1.queued, job_id, job.children)
        rm == remove_children(q1, job.children, 1)
    IN  IF ~found THEN [m |-> m, raised |-> FALSE]
        ELSE IF rm.raised
             THEN [m |-> [m1 EXCEPT !.queued = rm.queued], raised |-> TRUE]
             ELSE [m |-> schedule([m1 EXCEPT !.queued = rm.queued]),
                   raised |-> FALSE]

\* a loop that goes on after the handler of a message raised
Handled_survives(res) ==
    /\ queued' = res.m.queued
    /\ running' = res.m.running
    /\ slots_available' = res.m.slots_available
    /\ loop' = "run"
    /\ linked' = [x \in DOMAIN linked \cap Active(res.m) |-> linked[x]]
    /\ UNCHANGED <<wait_mode, current_id, response>>

\* an iteration that acknowledges the message on the response queue
Handled_replying(res) ==
    /\ queued' = res.m.queued
    /\ running' = res.m.running
    /\ slots_available' = res.m.slots_available
    /\ loop' = IF res.raised THEN "fault" ELSE "run"
    /\ linked' = [x \in DOMAIN linked \cap Active(res.m) |-> linked[x]]
    /\ response' = Append(response, ListReply(<< >>))
    /\ UNCHANGED <<wait_mode, current_id>>

\* one iteration of the loop of start() around a handler that returned
\* `res`: the state the handler left, and the loop broken if it raised
Handled(res) ==
    /\ queued' = res.m.queued
    /\ running' = res.m.running
    /\ slots_available' = res.m.slots_available
    /\ loop' = IF res.raised THEN "fault" ELSE "run"
    /\ linked' = [x \in DOMAIN linked \cap Active(res.m) |-> linked[x]]
    /\ UNCHANGED <<wait_mode, current_id, response>>

Done(job_id, state) ==
    /\ Receiving
    /\ Handled(handle_done(Master, job_id, state))

Failed(job_id) ==
    /\ Receiving
    /\ Handled(handle_failed(Master, job_id))

Cancel(job_id) ==
    /\ Requesting
    /\ Handled(handle_cancel(Master, job_id))

\* a WAIT handler that flips the flag
handle_wait_flip(mode) == ~mode

\* _GridMaster._handle_wait: the wait mode the handler leaves
handle_wait(mode) == IF ~mode THEN TRUE ELSE mode

\* a WAIT is processed, also one that reaches a Master that is in wait mode
\* already
Wait ==
    /\ Receiving /\ response = << >>
    /\ wait_mode' = handle_wait(wait_mode)
    /\ UNCHANGED <<queued, running, slots_available, current_id, loop,
          response, linked>>

\* _GridMaster._handle_jobs
Jobs ==
    /\ Requesting
    /\ response' = Append(response,
           ListReply(Keys(DOMAIN queued) \o Keys(DOMAIN running)))
    /\ UNCHANGED <<queued, running, slots_available, wait_mode, current_id,
                   loop, linked>>

\* an EXIT handler that terminates no process
exit_terminates_none(m) == {}

\* _handle_exit: the jobs whose process the handler terminates and joins
exit_terminates(m) == DOMAIN m.running

\* a message of a kind the handlers table does not have: the lookup raises
\* KeyError and the loop breaks
Unknown ==
    /\ Receiving
    /\ loop' = "fault"
    /\ UNCHANGED <<queued, running, slots_available, wait_mode, current_id,
                   response, linked>>

\* int(x) for the job_id of a message: it raises for None, the job_id of a
\* job that was never submitted
int_raises(x) == x = "None"

\* _handle_cancel for the CANCEL that LocalCluster.cancel sends for a job
\* whose job_id is unset: `job_id = int(args[1])` is the first statement
CancelUnset ==
    /\ Receiving
    /\ loop' = IF int_raises("None") THEN "fault" ELSE loop
    /\ UNCHANGED <<queued, running, slots_available, wait_mode, current_id,
                   response, linked>>

\* _GridMaster._handle_exit: the handler returns False and the loop breaks
Exit ==
    /\ Requesting
    /\ loop' = "exit"
    /\ UNCHANGED <<queued, running, slots_available, wait_mode, current_id,
                   response, linked>>

\* a drain check that does not look at the job maps
DrainExit_early ==
    /\ loop = "run"
    /\ wait_mode
    /\ loop' = "exit"
    /\ UNCHANGED <<queued, running, slots_available, wait_mode, current_id,
                   response, linked>>

\* the check at the top of the loop: in wait mode with no job left, break
DrainExit ==
    /\ loop = "run"
    /\ wait_mode /\ num_jobs = 0
    /\ loop' = "exit"
    /\ UNCHANGED <<queued, running, slots_available, wait_mode, current_id,
                   response, linked>>

\* LocalCluster.submit / LocalCluster.list: self.master_response.get()
Read ==
    /\ response # << >>
    /\ response' = Tail(response)
    /\ UNCHANGED <<queued, running, slots_available, wait_mode, current_id,
                   loop, linked>>

\* --------------------------------------------------------- the Executor
\* _terminate_process: the sleeps between the probes, in hundredths of a
\* second
BackoffSchedule == <<1, 1, 1, 2, 2, 2, 2, 2, 2, 10, 100, 200, 500>>
Probes == Len(BackoffSchedule)

\* `process = None`: no subprocess yet
NoProcess == [state |-> "None", code |-> 0]
\* ['DONE', job_id, state]
DoneNotice(state) == [kind |-> "DONE", state |-> state]
\* ['FAILED', job_id, str(err)]; the text of the error is left out
FailedNotice == [kind |-> "FAILED", state |-> 0]

\* the statements of _execute_job inside its try block
InTry == {"open", "popen", "wait", "waited"}
\* the ways the Executor process ends: _execute_job returned, sys.exit(1)
\* in the handler, the signal's default action, an uncaught exception
Ended == {"returned", "exited", "killed", "crashed"}
\* the main flow of _execute_job runs: no signal handler is on the stack
MainFlow == term_pc \in {"none", "raised"}

\* signal.signal(signal.SIGTERM, handle_term); result = -1
Install ==
    /\ MainFlow
    /\ exec_pc = "start"
    /\ exec_pc' = "open"
    /\ result' = -1
    /\ UNCHANGED <<process, notices, term_pc, probe, signals>>

\* open(job.stdout, 'w'); open(job.stderr, 'w'): they succeed or raise
OpenFiles(ok) ==
    /\ MainFlow
    /\ exec_pc = "open"
    /\ exec_pc' = IF ok THEN "popen" ELSE "except"
    /\ UNCHANGED <<process, result, notices, term_pc, probe, signals>>

\* process = subprocess.Popen("exec " + cmd, ...): it succeeds or raises
Spawn(ok) ==
    /\ MainFlow
    /\ exec_pc = "popen"
    /\ exec_pc' = IF ok THEN "wait" ELSE "except"
    /\ process' = IF ok THEN [state |-> "alive", code |-> 0] ELSE process
    /\ UNCHANGED <<result, notices, term_pc, probe, signals>>

\* the subprocess ends, by itself or on a signal it obeys
ChildExits(code) ==
    /\ process.state = "alive"
    /\ process' = [state |-> "zombie", code |-> code]
    /\ UNCHANGED <<exec_pc, result, notices, term_pc, probe, signals>>

\* result = process.wait()
WaitReturns ==
    /\ MainFlow
    /\ exec_pc = "wait"
    /\ process.state = "zombie"
    /\ process' = [process EXCEPT !.state = "reaped"]
    /\ result' = process.code
    /\ exec_pc' = "waited"
    /\ UNCHANGED <<notices, term_pc, probe, signals>>

\* the try block is left without an exception
LeaveTry ==
    /\ MainFlow
    /\ exec_pc = "waited"
    /\ exec_pc' = "finish"
    /\ UNCHANGED <<process, result, notices, term_pc, probe, signals>>

\* an except clause that reports the failure and returns
PutFailed_returns ==
    /\ MainFlow
    /\ exec_pc = "except"
    /\ notices' = Append(notices, FailedNotice)
    /\ exec_pc' = "returned"
    /\ UNCHANGED <<process, result, term_pc, probe, signals>>

\* except Exception as err: requests.put(['FAILED', job_id, str(err)])
PutFailed ==
    /\ MainFlow
    /\ exec_pc = "except"
    /\ notices' = Append(notices, FailedNotice)
    /\ exec_pc' = "finish"
    /\ UNCHANGED <<process, result, term_pc, probe, signals>>

\* requests.put(['DONE', job_id, result]) and the function returns
PutDone ==
    /\ MainFlow
    /\ exec_pc = "finish"
    /\ notices' = Append(notices, DoneNotice(result))
    /\ exec_pc' = "returned"
    /\ UNCHANGED <<process, result, term_pc, probe, signals>>

\* the Master's job.process.terminate(): SIGTERM reaches the Executor.
\* Before signal.signal has run the default action ends the process;
\* afterwards handle_term starts on top of the main flow.
Terminate ==
    /\ term_pc = "none"
    /\ exec_pc \notin Ended
    /\ IF exec_pc = "start"
       THEN exec_pc' = "killed" /\ term_pc' = term_pc
       ELSE exec_pc' = exec_pc /\ term_pc' = "send"
    /\ UNCHANGED <<process, result, notices, probe, signals>>

\* an exception raised in the signal handler surfaces in the main flow at
\* the statement the signal interrupted: inside the try block it is caught
\* by `except Exception`, elsewhere it ends the Executor
Raise ==
    /\ term_pc' = "raised"
    /\ exec_pc' = IF exec_pc \in InTry THEN "except" ELSE "crashed"

\* _terminate_process: `if process is not None: process.send_signal(SIGTERM)`.
\* For a subprocess that was already waited for, send_signal either raises
\* (os.kill on a pid that is gone) or does nothing, with the interpreter.
TermSend ==
    /\ term_pc = "send"
    /\ CASE process.state = "None" ->
              /\ term_pc' = "report"
              /\ UNCHANGED <<exec_pc, signals>>
         [] process.state \in {"alive", "zombie"} ->
              /\ signals' = Append(signals, "SIGTERM")
              /\ term_pc' = "poll"
              /\ UNCHANGED exec_pc
         [] OTHER ->
              /\ \/ Raise
                 \/ term_pc' = "poll" /\ UNCHANGED exec_pc
              /\ UNCHANGED signals
    /\ UNCHANGED <<process, result, notices, probe>>

\* Popen.poll(): reaps the subprocess when it has ended
poll(p) == IF p.state = "zombie" THEN [p EXCEPT !.state = "reaped"] ELSE p

\* _terminate_process: `if process.poll() is None:`
TermPoll ==
    /\ term_pc = "poll"
    /\ process' = poll(process)
    /\ term_pc' = IF process'.state = "alive" THEN "sleep" ELSE "report"
    /\ UNCHANGED <<exec_pc, result, notices, probe, signals>>

\* a for loop that goes through the whole schedule whatever poll() says
TermProbe_through ==
    /\ term_pc = "sleep"
    /\ probe < Probes
    /\ probe' = probe + 1
    /\ process' = poll(process)
    /\ term_pc' = IF probe' = Probes THEN "kill" ELSE "sleep"
    /\ UNCHANGED <<exec_pc, result, notices, signals>>

\* one turn of the for loop: time.sleep(t), then process.poll(); the loop
\* breaks when the subprocess has ended, and runs into its else branch when
\* the schedule is used up
TermProbe ==
    /\ term_pc = "sleep"
    /\ probe < Probes
    /\ probe' = probe + 1
    /\ process' = poll(process)
    /\ term_pc' = IF process'.state # "alive" THEN "report"
                  ELSE IF probe' = Probes THEN "kill" ELSE "sleep"
    /\ UNCHANGED <<exec_pc, result, notices, signals>>

\* the else branch: os.kill(process._popen.pid, signal.SIGKILL).  `process`
\* is a subprocess.Popen, which has no attribute _popen: the expression
\* raises AttributeError before os.kill is called.
TermKill ==
    /\ term_pc = "kill"
    /\ Raise
    /\ UNCHANGED <<process, result, notices, probe, signals>>

\* handle_term after _terminate_process returned:
\* requests.put(['DONE', job_id, 1]); sys.exit(1)
TermReport ==
    /\ term_pc = "report"
    /\ notices' = Append(notices, DoneNotice(1))
    /\ exec_pc' = "exited"
    /\ term_pc' = "exited"
    /\ UNCHANGED <<process, result, probe, signals>>

\* the Executor process right after the Master started it
ExecInit ==
    /\ exec_pc = "start"
    /\ process = NoProcess
    /\ result = -1
    /\ notices = << >>
    /\ term_pc = "none"
    /\ probe = 0
    /\ signals = << >>

\* ------------------------------------------------- the LocalCluster facade
\* the record of a call of the facade: the method, how it came back, and
\* what it returned
Call(op, outcome, value) == [op |-> op, outcome |-> outcome, value |-> value]

\* a start() that does not look at master_process
no_master_unchecked(mp) == TRUE

\* LocalCluster.start: `if self.master_process is None:`
no_master(mp) == mp = "None"

\* Queue.put on a queue this process has closed raises; otherwise the
\* message is added to the channel
CanPut == ~closed

\* LocalCluster.start: a new Master process on the facade's two queues,
\* with a fresh _GridMaster, unless the facade holds a process already
start ==
    /\ facade_pc = "idle"
    /\ IF no_master(master_process)
       THEN /\ master_process' = "Process"
            /\ masters' = masters + 1
            /\ active' = 0
            /\ draining' = FALSE
            /\ call' = Call("start", "launched", "None")
       ELSE /\ call' = Call("start", "noop", "None")
            /\ UNCHANGED <<master_process, masters, active, draining>>
    /\ UNCHANGED <<closed, master_requests, master_response, facade_pc>>

\* LocalCluster.shutdown up to self.master_process.join()
shutdown ==
    /\ facade_pc = "idle"
    /\ IF master_process = "None"
       THEN /\ call' = Call("shutdown", "noop", "None")
            /\ UNCHANGED <<master_requests, facade_pc>>
       ELSE IF CanPut
       THEN /\ master_requests' = Append(master_requests, "EXIT")
            /\ facade_pc' = "shutdown_join"
            /\ call' = Call("shutdown", "blocked", "None")
       ELSE /\ call' = Call("shutdown", "raised", "None")
            /\ UNCHANGED <<master_requests, facade_pc>>
    /\ UNCHANGED <<master_process, closed, masters, master_response, active,
                   draining>>

\* LocalCluster.shutdown from the return of join(): both queues are closed
\* and master_process is reset
shutdown_joined ==
    /\ facade_pc = "shutdown_join"
    /\ masters = 0
    /\ closed' = TRUE
    /\ master_process' = "None"
    /\ facade_pc' = "idle"
    /\ call' = Call("shutdown", "returned", "None")
    /\ UNCHANGED <<masters, master_requests, master_response, active,
                   draining>>

\* LocalCluster.wait up to self.master_process.join()
wait ==
    /\ facade_pc = "idle"
    /\ IF master_process = "None"
       THEN /\ call' = Call("wait", "noop", "None")
            /\ UNCHANGED <<master_requests, facade_pc>>
       ELSE IF CanPut
       THEN /\ master_requests' = Append(master_requests, "WAIT")
            /\ facade_pc' = "wait_join"
            /\ call' = Call("wait", "blocked", "None")
       ELSE /\ call' = Call("wait", "raised", "None")
            /\ UNCHANGED <<master_requests, facade_pc>>
    /\ UNCHANGED <<master_process, closed, masters, master_response, active,
                   draining>>

\* LocalCluster.wait from the return of join(): both queues are closed;
\* master_process is left as it is
wait_joined ==
    /\ facade_pc = "wait_join"
    /\ masters = 0
    /\ closed' = TRUE
    /\ facade_pc' = "idle"
    /\ call' = Call("wait", "returned", "None")
    /\ UNCHANGED <<master_process, masters, master_requests, master_response,
                   active, draining>>

\* LocalCluster.list up to self.master_response.get()
list ==
    /\ facade_pc = "idle"
    /\ IF master_process = "None"
       THEN /\ call' = Call("list", "returned", "[]")
            /\ UNCHANGED <<master_requests, facade_pc>>
       ELSE IF CanPut
       THEN /\ master_requests' = Append(master_requests, "JOBS")
            /\ facade_pc' = "list_get"
            /\ call' = Call("list", "blocked", "None")
       ELSE /\ call' = Call("list", "raised", "None")
            /\ UNCHANGED <<master_requests, facade_pc>>
    /\ UNCHANGED <<master_process, closed, masters, master_response, active,
                   draining>>

\* LocalCluster.list: self.master_response.get() returns
list_got ==
    /\ facade_pc = "list_get"
    /\ master_response # << >>
    /\ master_response' = Tail(master_response)
    /\ facade_pc' = "idle"
    /\ call' = Call("list", "returned", Head(master_response))
    /\ UNCHANGED <<master_process, closed, masters, master_requests, active,
                   draining>>

\* LocalCluster.submit up to self.master_response.get()
submit ==
    /\ facade_pc = "idle"
    /\ active < MaxJobs
    /\ IF master_process = "None"
       THEN /\ call' = Call("submit", "SubmissionError", "None")
            /\ UNCHANGED <<master_requests, facade_pc>>
       ELSE IF CanPut
       THEN /\ master_requests' = Append(master_requests, "SUBMIT")
            /\ facade_pc' = "submit_get"
            /\ call' = Call("submit", "blocked", "None")
       ELSE /\ call' = Call("submit", "raised", "None")
            /\ UNCHANGED <<master_requests, facade_pc>>
    /\ UNCHANGED <<master_process, closed, masters, master_response, active,
                   draining>>

\* LocalCluster.submit: self.master_response.get() returns the job id
submit_got ==
    /\ facade_pc = "submit_get"
    /\ master_response # << >>
    /\ master_response' = Tail(master_response)
    /\ facade_pc' = "idle"
    /\ call' = Call("submit", "returned", Head(master_response))
    /\ UNCHANGED <<master_process, closed, masters, master_requests, active,
                   draining>>

\* LocalCluster.cancel: fire and forget
cancel ==
    /\ facade_pc = "idle"
    /\ Len(master_requests) < MaxPending
    /\ IF master_process = "None"
       THEN /\ call' = Call("cancel", "noop", "None")
            /\ UNCHANGED master_requests
       ELSE IF CanPut
       THEN /\ master_requests' = Append(master_requests, "CANCEL")
            /\ call' = Call("cancel", "returned", "None")
       ELSE /\ call' = Call("cancel", "raised", "None")
            /\ UNCHANGED master_requests
    /\ UNCHANGED <<master_process, closed, masters, master_response, active,
                   draining, facade_pc>>

\* LocalCluster.submit run by another process that holds the facade's
\* queues, while this client is blocked in wait(): its SUBMIT is put on the
\* request queue behind the WAIT
other_submit ==
    /\ facade_pc = "wait_join"
    /\ active + Len(master_requests) + Len(master_response) < MaxJobs
    /\ master_requests' = Append(master_requests, "SUBMIT")
    /\ UNCHANGED <<master_process, closed, masters, master_response, active,
                   draining, facade_pc, call>>

\* a loop turn that receives without the drain check
master_takes_unchecked(found) ==
    /\ masters >= 1
    /\ master_requests # << >>
    /\ master_requests' = Tail(master_requests)
    /\ LET command == Head(master_requests) IN
       /\ masters' = IF command = "EXIT" THEN masters - 1 ELSE masters
       /\ draining' = IF command = "WAIT" THEN TRUE ELSE draining
       /\ master_response' =
              IF command = "JOBS" THEN Append(master_response, "ids")
              ELSE IF command = "SUBMIT" THEN Append(master_response, "id")
              ELSE master_response
       /\ active' = IF command = "SUBMIT" THEN active + 1
                    ELSE IF command = "CANCEL" /\ found /\ active > 0
                    THEN active - 1
                    ELSE active
    /\ UNCHANGED <<master_process, closed, facade_pc, call>>

\* one turn of the master loop on the facade's queues: the drain check, the
\* receive and the handler, with the jobs of the Master reduced to their
\* number.  EXIT ends the Master, WAIT sets the drain flag, JOBS and SUBMIT
\* reply, CANCEL removes its job if the Master has it.
master_takes(found) ==
    /\ masters >= 1
    /\ ~(draining /\ active = 0)
    /\ master_requests # << >>
    /\ master_requests' = Tail(master_requests)
    /\ LET command == Head(master_requests) IN
       /\ masters' = IF command = "EXIT" THEN masters - 1 ELSE masters
       /\ draining' = IF command = "WAIT" THEN TRUE ELSE draining
       /\ master_response' =
              IF command = "JOBS" THEN Append(master_response, "ids")
              ELSE IF command = "SUBMIT" THEN Append(master_response, "id")
              ELSE master_response
       /\ active' = IF command = "SUBMIT" THEN active + 1
                    ELSE IF command = "CANCEL" /\ found /\ active > 0
                    THEN active - 1
                    ELSE active
    /\ UNCHANGED <<master_process, closed, facade_pc, call>>

\* the drain check at the top of the loop ends the Master
master_drained ==
    /\ masters >= 1
    /\ draining /\ active = 0
    /\ masters' = masters - 1
    /\ UNCHANGED <<master_process, closed, master_requests, master_response,
                   active, draining, facade_pc, call>>

\* the Master takes the DONE of one of its jobs from an Executor
job_ends ==
    /\ masters >= 1
    /\ active > 0
    /\ active' = active - 1
    /\ UNCHANGED <<master_process, closed, masters, master_requests,
                   master_response, draining, facade_pc, call>>

\* the loop of the Master breaks on an exception: a handler raised, or
\* requests.get() raised
master_breaks ==
    /\ masters >= 1
    /\ masters' = masters - 1
    /\ UNCHANGED <<master_process, closed, master_requests, master_response,
                   active, draining, facade_pc, call>>

\* LocalCluster.__init__(_start)
FacadeInit(_start) ==
    /\ master_process = IF _start THEN "Process" ELSE "None"
    /\ masters = IF _start THEN 1 ELSE 0
    /\ closed = FALSE
    /\ master_requests = << >>
    /\ master_response = << >>
    /\ active = 0
    /\ draining = FALSE
    /\ facade_pc = "idle"
    /\ call = Call("__init__", "returned", "None")

\* ------------------------------------------------------- the log paths
\* a path is a sequence of characters; None is the path that is missing
None == <<"None">>
Chars == {"%", "J", "x"}
\* the paths of at most n characters
Paths(n) == UNION {[1..k -> Chars] : k \in 0..n}
\* the job ids the paths are resolved with: one digit and two digits
PathIds == {1, 12}

Digit(n) == <<"0", "1", "2", "3", "4", "5", "6", "7", "8", "9">>[n + 1]

\* str(job_id): the decimal digits of a positive id
RECURSIVE str(_)
str(n) == IF n < 10 THEN <<Digit(n)>> ELSE str(n \div 10) \o <<Digit(n % 10)>>

\* a substitution that changes the first placeholder only
RECURSIVE replace_first(_, _)
replace_first(path, new) ==
    IF Len(path) < 2 THEN path
    ELSE IF path[1] = "%" /\ path[2] = "J"
         THEN new \o SubSeq(path, 3, Len(path))
         ELSE <<path[1]>> \o replace_first(Tail(path), new)

\* path.replace("%J", new): left to right, every occurrence that does not
\* overlap the one before it
RECURSIVE replace(_, _)
replace(path, new) ==
    IF Len(path) < 2 THEN path
    ELSE IF path[1] = "%" /\ path[2] = "J"
         THEN new \o replace(SubSeq(path, 3, Len(path)), new)
         ELSE <<path[1]>> \o replace(Tail(path), new)

\* a Master that resolves the first placeholder of a path only
_resolve_log_first(job_id, path) ==
    IF path = None THEN None ELSE replace_first(path, str(job_id))

\* _GridMaster._resolve_log
_resolve_log(job_id, path) ==
    IF path = None THEN None ELSE replace(path, str(job_id))

\* LocalCluster.resolve_log
resolve_log(job, path) ==
    IF path = None THEN None ELSE replace(path, str(job.job_id))

\* no file opened yet
NotOpened == [stdout |-> << >>, stderr |-> << >>]
\* resolve_log not called yet
NotResolved == [template |-> << >>, path |-> << >>]

\* _handle_submit for the paths of the job: the id is assigned, stdout and
\* stderr are resolved, the job is put into the queue, and the scheduler
\* that ends the handler promotes it or not
path_submit(job_id, promoted) ==
    /\ path_pc = "new"
    /\ stored' = [job_id |-> job_id,
                  stdout |-> _resolve_log(job_id, submitted.stdout),
                  stderr |-> _resolve_log(job_id, submitted.stderr)]
    /\ path_pc' = IF promoted THEN "running" ELSE "queued"
    /\ UNCHANGED <<submitted, opened, resolved>>

\* a later scheduler run promotes the job: run_job starts its Executor
path_promote ==
    /\ path_pc = "queued"
    /\ path_pc' = "running"
    /\ UNCHANGED <<submitted, stored, opened, resolved>>

\* _execute_job: open(job.stdout, 'w'), open(job.stderr, 'w')
path_open ==
    /\ path_pc = "running"
    /\ opened = NotOpened
    /\ opened' = [stdout |-> stored.stdout, stderr |-> stored.stderr]
    /\ UNCHANGED <<submitted, stored, path_pc, resolved>>

\* the caller of submit() passes the job it got back, with its job_id set,
\* and one of the templates to LocalCluster.resolve_log
path_resolve(template) ==
    /\ path_pc # "new"
    /\ resolved' = [template |-> template, path |-> resolve_log(stored, template)]
    /\ resolved' # resolved
    /\ UNCHANGED <<submitted, stored, path_pc, opened>>

\* a job as submit() sends it, with the templates of its two paths
PathInit(stdout, stderr) ==
    /\ submitted = [stdout |-> stdout, stderr |-> stderr]
    /\ stored = [job_id |-> 0, stdout |-> stdout, stderr |-> stderr]
    /\ path_pc = "new"
    /\ opened = NotOpened
    /\ resolved = NotResolved

\* _GridMaster.__init__
Init ==
    /\ queued = NoJobs
    /\ running = NoJobs
    /\ slots_available = Cores
    /\ wait_mode = FALSE
    /\ current_id = 0
    /\ loop = "run"
    /\ response = << >>
    /\ linked = << >>

\* the other parts of the program stand still
ExecIdle == UNCHANGED evars
FacadeIdle == UNCHANGED fvars
PathIdle == UNCHANGED pvars
MasterIdle == UNCHANGED mvars

Next ==
    \/ /\ \E t \in 1..MaxThreads, d \in DepSets(current_id + 1) : Submit(t, d)
       /\ ExecIdle /\ FacadeIdle /\ PathIdle
    \/ /\ \E id \in JobIds, state \in ExitCodes : Done(id, state)
       /\ ExecIdle /\ FacadeIdle /\ PathIdle
    \/ /\ \E id \in JobIds : Failed(id)
       /\ ExecIdle /\ FacadeIdle /\ PathIdle
    \/ /\ \E id \in JobIds : Cancel(id)
       /\ ExecIdle /\ FacadeIdle /\ PathIdle
    \/ Wait /\ ExecIdle /\ FacadeIdle /\ PathIdle
    \/ Jobs /\ ExecIdle /\ FacadeIdle /\ PathIdle
    \/ Exit /\ ExecIdle /\ FacadeIdle /\ PathIdle
    \/ Unknown /\ ExecIdle /\ FacadeIdle /\ PathIdle
    \/ CancelUnset /\ ExecIdle /\ FacadeIdle /\ PathIdle
    \/ DrainExit /\ ExecIdle /\ FacadeIdle /\ PathIdle
    \/ Read /\ ExecIdle /\ FacadeIdle /\ PathIdle

\* one Master, one Executor not yet signalled, one facade with its Master
\* started, one job with the default templates of LocalCluster.submit
MasterInit ==
    /\ Init
    /\ ExecInit
    /\ FacadeInit(TRUE)
    /\ PathInit(<<"%", "J">>, <<"x", "%", "J">>)

Spec == MasterInit /\ [][Next]_vars

\* a DONE notice for a job that is running is processed
DoneRunning ==
    \E id \in DOMAIN running, state \in ExitCodes : Done(id, state)

\* the Master fed jobs of any positive thread count: also jobs that ask for
\* more threads than the machine has
NextAny ==
    \/ /\ \E d \in DepSets(current_id + 1) : Submit(Cores + 1, d)
       /\ ExecIdle /\ FacadeIdle /\ PathIdle
    \/ Next

SpecAny == MasterInit /\ [][NextAny]_vars

\* the loop is not held up at its drain check, and every job that runs
\* ends: its Executor puts a DONE on the requests queue (_execute_job), and
\* the loop gets to it
FairSpec ==
    /\ MasterInit /\ [][NextAny]_vars
    /\ WF_vars(DrainExit) /\ WF_vars(DoneRunning)

\* one Executor from its start by run_job to the end of its process, with
\* a launch that succeeds or fails, a subprocess that ends with any exit
\* code or never, and the SIGTERM of a cancel or an exit at any point
ExecNext ==
    \/ Install /\ MasterIdle /\ FacadeIdle /\ PathIdle
    \/ (\E ok \in BOOLEAN : OpenFiles(ok)) /\ MasterIdle /\ FacadeIdle /\ PathIdle
    \/ (\E ok \in BOOLEAN : Spawn(ok)) /\ MasterIdle /\ FacadeIdle /\ PathIdle
    \/ (\E code \in ExitCodes : ChildExits(code))
           /\ MasterIdle /\ FacadeIdle /\ PathIdle
    \/ WaitReturns /\ MasterIdle /\ FacadeIdle /\ PathIdle
    \/ LeaveTry /\ MasterIdle /\ FacadeIdle /\ PathIdle
    \/ PutFailed /\ MasterIdle /\ FacadeIdle /\ PathIdle
    \/ PutDone /\ MasterIdle /\ FacadeIdle /\ PathIdle
    \/ Terminate /\ MasterIdle /\ FacadeIdle /\ PathIdle
    \/ TermSend /\ MasterIdle /\ FacadeIdle /\ PathIdle
    \/ TermPoll /\ MasterIdle /\ FacadeIdle /\ PathIdle
    \/ TermProbe /\ MasterIdle /\ FacadeIdle /\ PathIdle
    \/ TermKill /\ MasterIdle /\ FacadeIdle /\ PathIdle
    \/ TermReport /\ MasterIdle /\ FacadeIdle /\ PathIdle

ExecSpec == MasterInit /\ [][ExecNext]_vars

\* one client on one facade, created with or without a Master, calling the
\* methods of the facade in any order
FacadeNext ==
    \/ start /\ MasterIdle /\ ExecIdle /\ PathIdle
    \/ shutdown /\ MasterIdle /\ ExecIdle /\ PathIdle
    \/ shutdown_joined /\ MasterIdle /\ ExecIdle /\ PathIdle
    \/ wait /\ MasterIdle /\ ExecIdle /\ PathIdle
    \/ wait_joined /\ MasterIdle /\ ExecIdle /\ PathIdle
    \/ list /\ MasterIdle /\ ExecIdle /\ PathIdle
    \/ list_got /\ MasterIdle /\ ExecIdle /\ PathIdle
    \/ submit /\ MasterIdle /\ ExecIdle /\ PathIdle
    \/ submit_got /\ MasterIdle /\ ExecIdle /\ PathIdle
    \/ cancel /\ MasterIdle /\ ExecIdle /\ PathIdle
    \/ (\E found \in BOOLEAN : master_takes(found))
           /\ MasterIdle /\ ExecIdle /\ PathIdle
    \/ master_drained /\ MasterIdle /\ ExecIdle /\ PathIdle
    \/ job_ends /\ MasterIdle /\ ExecIdle /\ PathIdle
    \/ master_breaks /\ MasterIdle /\ ExecIdle /\ PathIdle
    \/ other_submit /\ MasterIdle /\ ExecIdle /\ PathIdle

FacadeSpecInit ==
    /\ Init
    /\ ExecInit
    /\ \E _start \in BOOLEAN : FacadeInit(_start)
    /\ PathInit(<<"%", "J">>, <<"x", "%", "J">>)

FacadeSpec == FacadeSpecInit /\ [][FacadeNext]_vars

\* one job with any two path templates, submitted, promoted, opened, and
\* its paths resolved by the caller
PathNext ==
    \/ (\E job_id \in PathIds, promoted \in BOOLEAN :
            path_submit(job_id, promoted))
           /\ MasterIdle /\ ExecIdle /\ FacadeIdle
    \/ path_promote /\ MasterIdle /\ ExecIdle /\ FacadeIdle
    \/ path_open /\ MasterIdle /\ ExecIdle /\ FacadeIdle
    \/ (\E template \in {submitted.stdout, submitted.stderr} :
            path_resolve(template))
           /\ MasterIdle /\ ExecIdle /\ FacadeIdle

PathSpecInit ==
    /\ Init
    /\ ExecInit
    /\ FacadeInit(TRUE)
    /\ \E stdout \in Paths(MaxPathLen) \cup {None},
          stderr \in Paths(MaxPathLen - 2) \cup {None} :
          PathInit(stdout, stderr)

PathSpec == PathSpecInit /\ [][PathNext]_vars

\* ------------------------------------------------------------ the claims
M == Master
MNext == [queued |-> queued', running |-> running',
          slots_available |-> slots_available']

\* C1: between two message-handling steps (the loop has not been broken by
\* a handler that raised), slots_available plus the thread counts of the
\* running jobs is slots_total.
C1_SlotAccounting ==
    loop # "fault" => slots_available + Threads(running) = slots_total

\* C1 witness: all submissions made, a job running on part of the machine
\* and another one waiting in the queue.
C1_Witness ==
    /\ loop = "run" /\ current_id = MaxJobs
    /\ DOMAIN running # {} /\ DOMAIN queued # {}
    /\ slots_available = 1

\* C2: the running jobs never use more than slots_total threads and
\* slots_available stays within 0..slots_total (a promotion of a job larger
\* than the free slots would drive it below 0).
C2_SlotsBounded ==
    /\ Threads(running) <= slots_total
    /\ slots_available \in 0..slots_total

\* C2 witness: the machine is full and a job without dependencies is kept
\* in the queue because it does not fit.
C2_Witness ==
    /\ slots_available = 0
    /\ Cardinality(DOMAIN running) = 2
    /\ \E q \in DOMAIN queued : queued[q].dependencies = {}

\* C3: every running job has an empty dependency set.
C3_RunningResolved ==
    \A j \in DOMAIN running : running[j].dependencies = {}

\* C3 witness: a job runs while a queued job that would fit in the free
\* slots is held back by an unresolved dependency.
C3_Witness ==
    /\ DOMAIN running # {}
    /\ \E q \in DOMAIN queued :
          /\ queued[q].dependencies # {}
          /\ queued[q].threads <= slots_available

C5_Original ==
    \A b \in Active(M) : \A a \in Job(M, b).dependencies :
        a \in Active(M) /\ b \in Job(M, a).children

\* C5 amended: every id in the dependency set of an active job B that was
\* the id of an active job when B was submitted (it was assigned no later
\* than B's) and still is, has B among its children.
C5_Mirrored ==
    \A b \in Active(M) : \A a \in Job(M, b).dependencies :
        (a \in Active(M) /\ a <= b) => b \in Job(M, a).children

\* C5 witness: a queued job with one dependency that is active and has it
\* as a child, and another dependency id that names no active job.
C5_Witness ==
    \E b \in DOMAIN queued :
        /\ \E a \in queued[b].dependencies \ {b} :
              a \in Active(M) /\ b \in Job(M, a).children
        /\ \E d \in queued[b].dependencies : d \notin Active(M)

\* the active jobs reachable from job `id` through children edges
RECURSIVE Below(_, _)
Below(ids, n) ==
    IF n = 0 THEN ids
    ELSE Below(ids \cup UNION {Job(M, x).children : x \in ids \cap Active(M)},
               n - 1)
Descendants(id) == Below(Job(M, id).children, MaxJobs) \cap Active(M)

\* C6 as stated: queued and running are disjoint, and the handler of a
\* terminal notice for a job (DONE with any code or FAILED for a running
\* job, CANCEL for an active job) leaves the job's id in neither map.
C6_TerminalLeavesMaps ==
    [][ /\ DOMAIN queued' \cap DOMAIN running' = {}
        /\ \A id \in Active(M) :
              (\/ id \in DOMAIN running /\ \E c \in ExitCodes : Done(id, c)
               \/ id \in DOMAIN running /\ Failed(id)
               \/ Cancel(id))
              => id \notin Active(MNext)
      ]_vars

\* C7 as stated: a FAILED step for a running job is a DONE step with a
\* nonzero code for it: same maps, same slots, and the loop keeps going.
C7_FailedAsDone ==
    [][ \A id \in DOMAIN running : Failed(id) => Done(id, 1) ]_vars

\* C8 as stated: the step that processes DONE(id, code # 0) for a running
\* job removes every queued descendant of id from queued, and every other
\* queued job is kept (in the queue, or promoted by the scheduler pass that
\* ends the handler) with its dependency set unchanged.
C8_CascadeOnFailure ==
    [][ \A id \in DOMAIN running :
          Done(id, 1) =>
            /\ \A d \in Descendants(id) \cap DOMAIN queued :
                  d \notin DOMAIN queued'
            /\ \A x \in DOMAIN queued \ Descendants(id) :
                  /\ x \in Active(MNext)
                  /\ Job(MNext, x).dependencies = queued[x].dependencies
      ]_vars

\* C9: the step that processes DONE(id, 0) for a running job deletes no
\* job but id; each child of id that is queued loses id from its
\* dependency set and nothing else, every other job keeps its dependency
\* set, and all of them stay active.
C9_SuccessKeepsChildren ==
    [][ \A id \in DOMAIN running :
          Done(id, 0) =>
            /\ Active(MNext) = Active(M) \ {id}
            /\ loop' = "run"
            /\ \A x \in Active(M) \ {id} :
                  /\ Job(MNext, x).dependencies =
                        IF x \in running[id].children /\ x \in DOMAIN queued
                        THEN Job(M, x).dependencies \ {id}
                        ELSE Job(M, x).dependencies
                  /\ Job(MNext, x).children = Job(M, x).children
                  /\ Job(MNext, x).threads = Job(M, x).threads
      ]_vars

\* C9 witness: the loop is going and an active job was linked to a
\* dependency that has left both maps: the dependency completed with code 0
\* (any other way out would have removed the job with it).
C9_Witness ==
    /\ loop = "run"
    /\ \E b \in Active(M) :
          b \in DOMAIN linked /\ \E a \in linked[b] \ {b} : a \notin Active(M)

\* C10 as stated: the step that processes CANCEL(id) for a queued job
\* removes id and all its queued descendants from queued and leaves running
\* and slots_available unchanged.
C10_CancelQueued ==
    [][ \A id \in DOMAIN queued :
          Cancel(id) =>
            /\ id \notin DOMAIN queued'
            /\ \A d \in Descendants(id) \cap DOMAIN queued :
                  d \notin DOMAIN queued'
            /\ running' = running
            /\ slots_available' = slots_available
      ]_vars

\* C8 and C10 where the cascade does not raise: the same two statements
\* hold of every step that leaves the loop going.
CascadeUnlessRaised ==
    [][ loop' = "run" =>
          /\ \A id \in DOMAIN running :
                Done(id, 1) =>
                  /\ \A d \in Descendants(id) \cap DOMAIN queued :
                        d \notin DOMAIN queued'
                  /\ \A x \in DOMAIN queued \ Descendants(id) :
                        /\ x \in Active(MNext)
                        /\ Job(MNext, x).dependencies = queued[x].dependencies
          /\ \A id \in DOMAIN queued :
                Cancel(id) =>
                  /\ id \notin DOMAIN queued'
                  /\ \A d \in Descendants(id) \cap DOMAIN queued :
                        d \notin DOMAIN queued'
                  /\ running' = running
                  /\ slots_available' = slots_available
      ]_vars

\* the jobs a step promotes
Promoted == [x \in DOMAIN running' \ DOMAIN running |-> running'[x]]

\* C11 as stated: the step that processes CANCEL(id) for a running job
\* terminates the process of that job and of no other, removes id from
\* running, gives its threads back to slots_available (less what the
\* scheduler pass that ends the handler hands to promoted jobs), removes
\* every queued descendant of id from queued, and keeps every other running
\* job running.
C11_CancelRunning ==
    [][ \A id \in DOMAIN running :
          Cancel(id) =>
            /\ cancel_terminates(M, id) = {id}
            /\ id \notin DOMAIN running'
            /\ slots_available' =
                  slots_available + running[id].threads - Threads(Promoted)
            /\ \A d \in Descendants(id) \cap DOMAIN queued :
                  d \notin DOMAIN queued'
            /\ \A r \in DOMAIN running \ {id} :
                  r \in DOMAIN running' /\ running'[r] = running[r]
      ]_vars

\* C11 where the cascade does not raise: the same statement holds of every
\* CANCEL step for a running job that leaves the loop going.
CancelRunningUnlessRaised ==
    [][ \A id \in DOMAIN running :
          (Cancel(id) /\ loop' = "run") =>
            /\ cancel_terminates(M, id) = {id}
            /\ id \notin DOMAIN running'
            /\ slots_available' =
                  slots_available + running[id].threads - Threads(Promoted)
            /\ \A d \in Descendants(id) \cap DOMAIN queued :
                  d \notin DOMAIN queued'
            /\ \A r \in DOMAIN running \ {id} :
                  r \in DOMAIN running' /\ running'[r] = running[r]
      ]_vars

\* C12: the step that processes DONE(id, code) for an id that is not in
\* running, or CANCEL(id) for an id in neither map, changes none of queued,
\* running, slots_available and wait_mode, and the loop keeps going.
C12_StaleIgnored ==
    [][ \A id \in JobIds :
          /\ (id \notin DOMAIN running /\ \E c \in ExitCodes : Done(id, c))
                => /\ UNCHANGED <<queued, running, slots_available, wait_mode>>
                   /\ loop' = "run"
          /\ (id \notin Active(M) /\ Cancel(id))
                => /\ UNCHANGED <<queued, running, slots_available, wait_mode>>
                   /\ loop' = "run"
      ]_vars

\* C12 witness: the loop is going, other jobs are queued and running, and
\* an id that was assigned names no active job any more, so a DONE or a
\* CANCEL for it (the DONE(id, 1) of a cancelled job's Executor, say) is a
\* stale notice.
C12_Witness ==
    /\ loop = "run"
    /\ DOMAIN queued # {} /\ DOMAIN running # {}
    /\ \E id \in 1..current_id : id \notin Active(M)

\* C13 as stated: the step that processes FAILED(id, error) for an id that
\* is not in running changes none of queued, running and slots_available
\* and the loop keeps going.
C13_StaleFailedIgnored ==
    [][ \A id \in JobIds :
          (id \notin DOMAIN running /\ Failed(id))
            => /\ UNCHANGED <<queued, running, slots_available>>
               /\ loop' = "run"
      ]_vars

\* C14: the id counter never decreases; a step that moves it is a SUBMIT
\* step: it moves it by one, the job it adds to the maps has the new value
\* as id and that value is the reply; no other step adds an id to the maps,
\* and every active id is at most the counter, so the id of the k-th SUBMIT
\* is k and is larger than every id assigned before, whether the earlier
\* jobs are still active or not.
C14_IdsIncrease ==
    [][ /\ current_id' >= current_id
        /\ current_id' # current_id =>
              /\ current_id' = current_id + 1
              /\ Active(MNext) \ Active(M) = {current_id'}
              /\ response' = Append(response, IdReply(current_id'))
        /\ current_id' = current_id => Active(MNext) \subseteq Active(M)
        /\ Active(MNext) \subseteq 1..current_id'
      ]_vars

\* C14 witness: the job with the latest id is active and names job 1 as a
\* dependency without having been registered as its child: job 1 had left
\* the maps (completed or cancelled) before this job was submitted.
C14_Witness ==
    /\ current_id > 1 /\ current_id \in Active(M) /\ 1 \notin Active(M)
    /\ current_id \in DOMAIN linked
    /\ 1 \in Job(M, current_id).dependencies
    /\ 1 \notin linked[current_id]

\* C15: a step that ends the loop without a fault either processes EXIT or
\* is taken in wait mode with queued and running both empty; in wait mode
\* with a job queued or running the loop does not exit; in wait mode with
\* both maps empty the Master takes no further message: its only step is
\* the exit; and wait mode, once set, stays set.
C15_DrainExit ==
    [][ /\ (loop = "run" /\ loop' = "exit")
              => (Exit \/ (wait_mode /\ num_jobs = 0))
        /\ (wait_mode /\ num_jobs > 0) => loop' # "exit"
        /\ (loop = "run" /\ wait_mode /\ num_jobs = 0)
              => \/ loop' = "exit" /\ ~Exit
                 \/ UNCHANGED <<queued, running, slots_available, wait_mode,
                                current_id, loop, linked>>
        /\ wait_mode => wait_mode'
      ]_vars

\* C15 witness: jobs were submitted, the Master was put in wait mode (after
\* which no EXIT is sent) and the loop has exited with both maps empty.
C15_Witness ==
    /\ loop = "exit" /\ wait_mode
    /\ current_id > 0 /\ num_jobs = 0

\* all jobs are submitted and the dependencies of the jobs still active are
\* acyclic and live: each names a job submitted earlier that is queued or
\* running and has the dependent among its children
Submitted ==
    /\ loop = "run" /\ current_id = MaxJobs
    /\ \A b \in Active(M) : \A a \in Job(M, b).dependencies :
          a < b /\ a \in Active(M) /\ b \in Job(M, a).children

\* C16 as stated, for jobs of any positive thread count.  Once all jobs of
\* an acyclic dependency set are submitted: while a job is left some job is
\* running, so that a DONE is due; the step that processes the DONE of a
\* running job leaves fewer jobs; no step adds a job or breaks the
\* hypothesis while the loop is going.  Hence, every running job getting
\* its DONE, queued and running are both empty after at most N of them.
C16_Original ==
    /\ [](Submitted /\ num_jobs > 0 => DOMAIN running # {})
    /\ [][ Submitted =>
              /\ num_jobs' <= num_jobs
              /\ loop' = "run" => Submitted'
              /\ DoneRunning => num_jobs' < num_jobs
          ]_vars

\* no active job asks for more threads than the machine has
Fit == \A b \in Active(M) : Job(M, b).threads <= slots_total

\* C16 amended: the same for jobs none of which asks for more threads than
\* slots_total.
C16_Drains ==
    /\ []((Submitted /\ Fit) /\ num_jobs > 0 => DOMAIN running # {})
    /\ [][ (Submitted /\ Fit) =>
              /\ num_jobs' <= num_jobs
              /\ loop' = "run" => (Submitted /\ Fit)'
              /\ DoneRunning => num_jobs' < num_jobs
          ]_vars

\* C16 witness: all jobs are submitted and active, none larger than the
\* machine, one running and the others waiting, a chain of dependencies
\* among them.
C16_Witness ==
    /\ Submitted /\ Fit /\ num_jobs = MaxJobs
    /\ \E b \in DOMAIN queued : \E a \in queued[b].dependencies :
          a \in DOMAIN queued /\ queued[a].dependencies # {}

\* C16 amended, as a temporal property under FairSpec
DrainsEventually ==
    (Submitted /\ Fit) ~> (num_jobs = 0 \/ loop # "run")

\* in wait mode with both maps empty the loop ends (under FairSpec)
DrainLeadsToExit ==
    (wait_mode /\ num_jobs = 0) ~> (loop # "run")

\* the queued jobs with an empty dependency set that fit in the free slots
Runnable(m) ==
    {j \in DOMAIN m.queued : /\ m.queued[j].dependencies = {}
                             /\ m.queued[j].threads <= m.slots_available}

\* promote the runnable job with the lowest id, as long as there is one
RECURSIVE LowestIdFirst(_)
LowestIdFirst(m) ==
    IF Runnable(m) = {} THEN m
    ELSE LET j == Min(Runnable(m))
         IN  LowestIdFirst(
                 [queued |-> Del(m.queued, j),
                  running |-> Put(m.running, j, m.queued[j]),
                  slots_available |-> m.slots_available - m.queued[j].threads])

\* the state a step's handler left to its scheduler pass: the state after
\* the step with the promotions of the step undone
Unpromoted ==
    [queued |-> [x \in DOMAIN queued' \cup DOMAIN Promoted |->
                    IF x \in DOMAIN queued' THEN queued'[x] ELSE running'[x]],
     running |-> [x \in DOMAIN running' \ DOMAIN Promoted |-> running'[x]],
     slots_available |-> slots_available' + Threads(Promoted)]

\* C17: in every step that leaves the loop going, the jobs promoted are
\* those that are picked by promoting, again and again, the queued job of
\* lowest id among those with an empty dependency set that fit in the free
\* slots: a runnable job that does not fit holds back no later one, and no
\* runnable job is missed behind a job with dependencies.
C17_LowestIdFirst ==
    [][ loop' = "run" => MNext = LowestIdFirst(Unpromoted) ]_vars

\* C17 witness: a queued job with an empty dependency set does not fit in
\* the free slots and a job with a higher id, submitted after it, is
\* running.
C17_Witness ==
    \E q \in DOMAIN queued, r \in DOMAIN running :
        /\ queued[q].dependencies = {}
        /\ queued[q].threads > slots_available
        /\ r > q

\* C18: the SUBMIT step of a job with an empty dependency set whose thread
\* count is at most slots_available ends with the job in running.
C18_RunsOnSubmit ==
    [][ \A t \in 1..MaxThreads :
          (Submit(t, {}) /\ t <= slots_available)
            => current_id' \in DOMAIN running'
      ]_vars

\* C18 witness: right after the second of two SUBMITs of independent
\* 1-thread jobs (its reply is not read yet) both jobs are running.
C18_Witness ==
    /\ current_id = 2 /\ response = <<IdReply(2)>>
    /\ DOMAIN running = {1, 2} /\ DOMAIN queued = {}
    /\ \A j \in {1, 2} : running[j].threads = 1
    /\ slots_available = slots_total - 2

\* C19: the step that processes JOBS puts one list on the response queue:
\* as many ids as there are active jobs, the ids of queued first and then
\* the ids of running, so each active id once and nothing else.
C19_ListsActive ==
    [][ Jobs =>
          LET ids == response'[Len(response')].ids
              n   == Cardinality(DOMAIN queued)
          IN  /\ response' = Append(response, ListReply(ids))
              /\ Len(ids) = num_jobs
              /\ {ids[i] : i \in 1..n} = DOMAIN queued
              /\ {ids[i] : i \in (n + 1)..Len(ids)} = DOMAIN running
      ]_vars

\* C19 witness: the reply to a JOBS is on the response queue; it lists a
\* queued and a running job, and an id assigned earlier, whose job has left
\* the maps, is not in it.
C19_Witness ==
    /\ response # << >> /\ Head(response).id = 0
    /\ LET ids == Head(response).ids
       IN  /\ Len(ids) = 2 /\ ids[1] \in DOMAIN queued
           /\ ids[2] \in DOMAIN running
           /\ \E gone \in 1..current_id :
                 gone \notin Active(M) /\ \A i \in 1..2 : ids[i] # gone

\* C20: a step that moves the id counter (SUBMIT) puts the new id on the
\* response queue and a JOBS step puts one list on it; DONE, FAILED, CANCEL,
\* WAIT, EXIT and the drain exit put nothing; the queue changes in no other
\* step but the client's read.  So the queue never holds more than the one
\* reply the client is blocked on, and an id on it is the id assigned last.
C20_OneReplyPerRequest ==
    /\ [](/\ Len(response) <= 1
          /\ (response # << >> /\ Head(response).id # 0)
                => Head(response).id = current_id)
    /\ [][ /\ current_id' # current_id
                 => response' = Append(response, IdReply(current_id'))
           /\ Jobs => Len(response') = Len(response) + 1
           /\ (\/ \E id \in JobIds, c \in ExitCodes : Done(id, c)
               \/ \E id \in JobIds : Failed(id) \/ Cancel(id)
               \/ Wait \/ Exit \/ DrainExit)
                 => response' = response
           /\ response' # response
                 => (current_id' # current_id \/ Jobs \/ Read)
          ]_vars

\* C20 witness: the reply to the last SUBMIT is still unread and the job it
\* names has already left the maps: an Executor's notice was processed
\* between the request and the client's read.
C20_Witness ==
    /\ loop = "run" /\ current_id > 1
    /\ response = <<IdReply(current_id)>>
    /\ current_id \notin Active(M)

\* C21: the step that processes EXIT terminates and joins the process of
\* every running job and ends the loop; once the loop has ended by an EXIT
\* the Master takes no message: no job is added, promoted or removed, no id
\* is assigned and nothing is put on the response queue.
C21_ExitStops ==
    [][ /\ Exit => /\ exit_terminates(M) = DOMAIN running
                   /\ loop' = "exit"
                   /\ MNext = M
        /\ loop = "exit" =>
              /\ UNCHANGED <<queued, running, slots_available, wait_mode,
                             current_id, loop>>
              /\ response' = response \/ Read
      ]_vars

\* C21 witness: the loop was ended by an EXIT (the Master was not in wait
\* mode) while a job was running and a job without dependencies, which
\* will never be promoted, was queued.
C21_Witness ==
    /\ loop = "exit" /\ ~wait_mode
    /\ DOMAIN running # {}
    /\ \E q \in DOMAIN queued : queued[q].dependencies = {}

\* C27: a step whose handler raises (FAILED, a message of unknown kind, a
\* DONE or a CANCEL whose cascade raises) ends the loop, and once the loop
\* has ended by a fault the Master takes no message: no job is added,
\* promoted or removed, no id is assigned and nothing is put on the
\* response queue.
C27_FaultStops ==
    [][ /\ (\/ Unknown
            \/ \E id \in JobIds : Failed(id)
            \/ \E id \in JobIds, c \in ExitCodes :
                  Done(id, c) /\ handle_done(M, id, c).raised
            \/ \E id \in JobIds :
                  Cancel(id) /\ handle_cancel(M, id).raised)
              => loop' = "fault"
        /\ loop = "fault" =>
              /\ UNCHANGED <<queued, running, slots_available, wait_mode,
                             current_id, loop>>
              /\ response' = response \/ Read
      ]_vars

\* C27 witness: the loop has ended by a fault and a queued job without
\* dependencies fits in the free slots: it would be promoted by the next
\* scheduler pass, and none is made.
C27_Witness ==
    /\ loop = "fault"
    /\ \E q \in DOMAIN queued :
          /\ queued[q].dependencies = {}
          /\ queued[q].threads <= slots_available

\* C28: of a CANCEL(id) and a DONE(id, code) for a running job, whichever
\* is processed first gives the job's threads back to slots_available
\* (less what the scheduler pass hands to promoted jobs) and, unless the
\* handler raises and the loop ends, removes the job; an id that has left
\* the maps does not come back, so the other one finds it in neither map
\* and changes nothing: no slot is given twice and no other job is touched.
C28_CancelDoneOnce ==
    [][ \A id \in JobIds :
          /\ (id \in DOMAIN running
                /\ (Cancel(id) \/ \E c \in ExitCodes : Done(id, c)))
                => /\ slots_available' = slots_available
                          + running[id].threads - Threads(Promoted)
                   /\ loop' = "run" => id \notin Active(MNext)
          /\ (id \in 1..current_id /\ id \notin Active(M))
                => id \notin Active(MNext)
          /\ (id \notin Active(M)
                /\ (Cancel(id) \/ \E c \in ExitCodes : Done(id, c)))
                => MNext = M /\ loop' = "run"
      ]_vars

\* C28 witness: every job that was submitted has left the maps, by DONE or
\* by CANCEL in any order, and slots_available is slots_total again.
C28_Witness ==
    /\ loop = "run" /\ current_id = MaxJobs /\ num_jobs = 0
    /\ slots_available = slots_total

\* C30: the step that processes WAIT leaves the Master in wait mode and
\* changes nothing else; when the Master is in wait mode already it changes
\* nothing at all.
C30_WaitFrame ==
    [][ Wait => /\ wait_mode'
                /\ UNCHANGED <<queued, running, slots_available, current_id,
                               response, loop>>
      ]_vars

\* C30 witness: the Master is in wait mode with jobs queued and running,
\* the id counter and the slots as the submissions left them.
C30_Witness ==
    /\ wait_mode /\ loop = "run"
    /\ DOMAIN queued # {} /\ DOMAIN running # {}
    /\ current_id = MaxJobs

\* the facade is in one of the situations in which no Master runs: it holds
\* no process (before start(), after shutdown()), or its wait() has just
\* returned
NoMasterRuns ==
    /\ masters = 0
    /\ \/ master_process = "None"
       \/ call = Call("wait", "returned", "None")

\* C22: whenever no Master process is running - before start(), after
\* shutdown(), after wait() has returned - submit() fails with
\* SubmissionError, puts no SUBMIT on the request queue and does not block.
C22_SubmitFails ==
    [][ (submit /\ NoMasterRuns) =>
            /\ call' = Call("submit", "SubmissionError", "None")
            /\ master_requests' = master_requests
            /\ facade_pc' = "idle" ]_vars

\* C23: start() is idempotent: called while the facade has a Master it
\* launches nothing and changes nothing of the facade or the Master, so
\* there is never more than one Master process on the facade's queues.
C23_StartIdempotent ==
    /\ [](masters <= 1)
    /\ [][ (start /\ masters >= 1) =>
              UNCHANGED <<master_process, closed, masters, master_requests,
                          master_response, active, draining, facade_pc>> ]_vars

\* start() was called while the Master was running
C23_Witness == call = Call("start", "noop", "None") /\ masters = 1

\* C24: shutdown() always returns, never raises, and once it has returned
\* the facade holds no Master and none is alive; list() then returns an
\* empty list and cancel() sends nothing.
C24_ShutdownReturns ==
    /\ [][ shutdown => call'.outcome # "raised" ]_vars
    /\ [](call \in {Call("shutdown", "returned", "None"),
                    Call("shutdown", "noop", "None")}
             => master_process = "None" /\ masters = 0)
    /\ [][ (list /\ master_process = "None") =>
              /\ call' = Call("list", "returned", "[]")
              /\ master_requests' = master_requests ]_vars
    /\ [][ (cancel /\ master_process = "None") =>
              master_requests' = master_requests ]_vars

\* C25: an Executor puts exactly one notice on the requests queue: never
\* more than one, and one once its process has ended, however it ended.
C25_OneNotice ==
    /\ Len(notices) <= 1
    /\ exec_pc \in Ended => Len(notices) = 1

\* C26: when the subprocess is still alive after the last probe, the
\* protocol sends it SIGKILL and returns, the handler puts DONE(id, 1) and
\* exits: an Executor whose protocol used up the schedule has ended by
\* sys.exit with that one notice, never by an error.
C26_ForceKill ==
    /\ [][ (term_pc = "kill" /\ term_pc' # "kill") =>
              /\ signals' = Append(signals, "SIGKILL")
              /\ term_pc' = "report" ]_vars
    /\ []((probe = Probes /\ exec_pc \in Ended) =>
              /\ exec_pc = "exited"
              /\ notices = <<DoneNotice(1)>>)

\* the places of the placeholder in a template
Occurrences(template) ==
    {i \in 1..(Len(template) - 1) : template[i] = "%" /\ template[i + 1] = "J"}

\* `path` is `template` with the digits of job_id in the place of every
\* placeholder and every other character kept where it was
IsSubstitution(template, job_id, path) ==
    IF template = None THEN path = None
    ELSE LET occ == Occurrences(template)
             digits == str(job_id)
             shift(i) == Cardinality({o \in occ : o < i}) * (Len(digits) - 2)
         IN  /\ path # None
             /\ Len(path) = Len(template) + Cardinality(occ) * (Len(digits) - 2)
             /\ \A o \in occ :
                  SubSeq(path, o + shift(o), o + shift(o) + Len(digits) - 1)
                      = digits
             /\ \A i \in 1..Len(template) :
                  (i \notin occ /\ (i - 1) \notin occ) =>
                      path[i + shift(i)] = template[i]

\* C29: from the SUBMIT on, so before any promotion, the stdout and stderr
\* the Master stores are the templates with every %J replaced by the
\* decimal id it assigned, and None where the template is None; the
\* Executor opens these paths; and LocalCluster.resolve_log on the returned
\* job and a template gives the path the Master stored for that template.
C29_PathsResolved ==
    /\ path_pc # "new" =>
          /\ IsSubstitution(submitted.stdout, stored.job_id, stored.stdout)
          /\ IsSubstitution(submitted.stderr, stored.job_id, stored.stderr)
    /\ path_pc = "new" => opened = NotOpened
    /\ opened # NotOpened =>
          opened = [stdout |-> stored.stdout, stderr |-> stored.stderr]
    /\ resolved # NotResolved =>
          /\ resolved.template = submitted.stdout =>
                 resolved.path = stored.stdout
          /\ resolved.template = submitted.stderr =>
                 resolved.path = stored.stderr

\* a template with two placeholders was resolved with a two-digit id by the
\* Master and by the facade, next to a missing stderr, and the Executor has
\* opened the job's files
C29_Witness ==
    /\ submitted = [stdout |-> <<"%", "J", "%", "J">>, stderr |-> None]
    /\ stored.job_id = 12
    /\ opened # NotOpened
    /\ resolved.template = submitted.stdout

\* the Executor has put a FAILED notice
HasFailed == \E i \in DOMAIN notices : notices[i] = FailedNotice

\* C31 as stated: an Executor that has put FAILED ends having put FAILED
\* and then DONE(id, -1), nothing else.
C31_Original ==
    (HasFailed /\ exec_pc \in Ended) => notices = <<FailedNotice, DoneNotice(-1)>>

\* C31: FAILED is the first notice of the Executor that puts it and is
\* followed by one DONE before the Executor ends.  Until then the Executor
\* is at the statement that puts it.  The DONE is DONE(id, -1) unless a
\* termination signal came between the two puts (then it is the handler's
\* DONE(id, 1)) or the subprocess had been waited for already.
C31_FailedThenDone ==
    HasFailed =>
        /\ notices[1] = FailedNotice
        /\ Len(notices) <= 2
        /\ Len(notices) = 1 => exec_pc = "finish"
        /\ exec_pc \in Ended => Len(notices) = 2
        /\ Len(notices) = 2 =>
              /\ exec_pc \in {"returned", "exited"}
              /\ notices[2].kind = "DONE"
              /\ \/ notices[2] = DoneNotice(-1) /\ exec_pc = "returned"
                 \/ notices[2] = DoneNotice(1) /\ term_pc = "exited"
                 \/ notices[2] = DoneNotice(result) /\ process.state = "reaped"

\* the launch raised, no signal came, and the Executor has returned
C31_Witness ==
    /\ notices = <<FailedNotice, DoneNotice(-1)>>
    /\ exec_pc = "returned"
    /\ term_pc = "none"
    /\ process = NoProcess

\* C32: the protocol sends SIGTERM first; a check that finds the subprocess
\* exited - the first one or any of the 13 probes - ends the probing at
\* once, and from then on nothing is probed or sent; the force-kill is
\* reached only after 13 probes that all found the subprocess alive, with
\* SIGTERM sent before.
C32_GracefulFirst ==
    /\ [](term_pc = "kill" => probe = Probes /\ Probes = 13
                              /\ signals = <<"SIGTERM">>)
    /\ [](term_pc = "sleep" => signals = <<"SIGTERM">>)
    /\ [](\A i \in DOMAIN signals :
             signals[i] = "SIGKILL" => i > 1 /\ signals[1] = "SIGTERM")
    /\ [][ (term_pc \in {"poll", "sleep"} /\
            (term_pc' # term_pc \/ probe' # probe)) =>
              /\ process'.state # "alive" =>
                    term_pc' = "report" /\ signals' = signals
              /\ term_pc' = "sleep" =>
                    process'.state = "alive" /\ probe' < Probes
              /\ term_pc' = "kill" =>
                    process'.state = "alive" /\ probe' = Probes
              /\ probe' \in {probe, probe + 1} ]_vars
    /\ [][ (term_pc \in {"report", "exited", "raised"}) =>
              probe' = probe /\ signals' = signals ]_vars

\* the subprocess was alive at all 13 probes: the force-kill is next
C32_Witness ==
    /\ term_pc = "kill"
    /\ probe = 13
    /\ process.state = "alive"

\* no queued job without dependencies fits into the free slots
NoneFits ==
    \A id \in DOMAIN queued :
        ~(queued[id].dependencies = {} /\ queued[id].threads <= slots_available)

\* C33: after a SUBMIT, DONE or CANCEL handler has finished, and so in every
\* state of a Master whose loop has not faulted, no queued job with an empty
\* dependency set has a thread count within slots_available.
C33_WorkConserving ==
    /\ [](loop # "fault" => NoneFits)
    /\ [][ (loop' = "run" /\ MNext # M) => NoneFits' ]_vars

\* jobs 2 and 3 both waited for job 1 and run now: the scheduler call that
\* ended the DONE handler of job 1 promoted the two of them
C33_Witness ==
    /\ loop = "run"
    /\ DOMAIN running = {2, 3}
    /\ 2 \in DOMAIN linked /\ linked[2] = {1}
    /\ 3 \in DOMAIN linked /\ linked[3] = {1}

\* C34: every active job in the children set of an active job is queued,
\* and so is every active descendant of an active job: no running job is a
\* child or a descendant of a job that is queued or running.
C34_ChildrenQueued ==
    \A p \in Active(M) :
        /\ Job(M, p).children \cap Active(M) \subseteq DOMAIN queued
        /\ Descendants(p) \subseteq DOMAIN queued

\* a running job has a queued child, and is itself a job that was the child
\* of a job that is gone
C34_Witness ==
    /\ loop = "run"
    /\ \E p \in DOMAIN running :
          /\ running[p].children \cap DOMAIN queued # {}
          /\ p \in DOMAIN linked
          /\ linked[p] # {}

\* C35: an id is in one map at most; a job enters queued only as the job
\* of the SUBMIT being handled, with the id just assigned; it enters running
\* only from queued (or straight from its SUBMIT), and that at most once:
\* a running job never goes back to queued, and an id that was assigned and
\* is in neither map stays in neither.
C35_OneWay ==
    /\ [](DOMAIN queued \cap DOMAIN running = {})
    /\ [](Active(M) \subseteq 1..current_id)
    /\ [][ \A id \in JobIds :
             /\ (id \in DOMAIN queued' /\ id \notin DOMAIN queued) =>
                    id = current_id' /\ current_id' = current_id + 1
             /\ (id \in DOMAIN running' /\ id \notin DOMAIN running) =>
                    \/ id \in DOMAIN queued
                    \/ id = current_id' /\ current_id' = current_id + 1
             /\ id \in DOMAIN running => id \notin DOMAIN queued'
             /\ (id <= current_id /\ id \notin Active(M)) =>
                    id \notin Active(MNext) ]_vars

\* job 1 has been queued, has run and is gone; job 2, which waited for it,
\* runs; job 3 is queued
C35_Witness ==
    /\ 1 \notin Active(M)
    /\ 2 \in DOMAIN running /\ 2 \in DOMAIN linked /\ linked[2] = {1}
    /\ 3 \in DOMAIN queued

\* the dependencies of a queued job that were in neither map when the job
\* was submitted: those it still has and was not linked to
Stale(id) ==
    queued[id].dependencies \ (IF id \in DOMAIN linked THEN linked[id] ELSE {})

\* the step handles a cancellation or a failed completion that has the job
\* or an ancestor of it for its target
RemovedBy(id) ==
    \/ Cancel(id)
    \/ \E x \in Active(M) :
          /\ id \in Descendants(x)
          /\ Cancel(x) \/ Done(x, 1)

\* C36: a job submitted with a dependency id that is in neither map stays
\* queued at its SUBMIT with that id in its dependency set; from then on
\* the id stays in the set as long as the job is queued, the job is never
\* promoted, it leaves queued only in a CANCEL or a cascade that reaches
\* it, and the drain check never ends the loop while it is queued.
C36_StaleStays ==
    /\ [][ \A t \in 1..MaxThreads, d \in DepSets(current_id + 1) :
             Submit(t, d) =>
                LET id == current_id' IN
                (d \ linked'[id] # {}) =>
                    /\ id \in DOMAIN queued'
                    /\ d \ linked'[id] \subseteq queued'[id].dependencies ]_vars
    /\ [][ \A id \in DOMAIN queued :
             Stale(id) # {} =>
                /\ id \notin DOMAIN running'
                /\ id \in DOMAIN queued' =>
                       Stale(id) \subseteq queued'[id].dependencies
                /\ id \notin DOMAIN queued' => RemovedBy(id)
                /\ ~DrainExit ]_vars

\* job 1 was submitted waiting for id 2, which no job had yet; job 2 has
\* come and gone, and the draining Master is left with job 1
C36_Witness ==
    /\ loop = "run"
    /\ wait_mode
    /\ DOMAIN queued = {1} /\ DOMAIN running = {}
    /\ queued[1].dependencies = {2}
    /\ current_id >= 2

\* C37 as stated: every id in the children set of an active job is greater
\* than the job's own id, and every handler that runs the cascade - a
\* CANCEL, a DONE with a nonzero code - returns: the loop keeps going.
C37_CascadeTerminates ==
    /\ [](\A p \in Active(M) : \A c \in Job(M, p).children : c > p)
    /\ [][ \A id \in JobIds :
             (Cancel(id) \/ Done(id, 1)) => loop' = "run" ]_vars

\* C38 as stated: the CANCEL of a job whose job_id is unset leaves queued,
\* running and slots_available unchanged and the loop goes on.
C38_CancelUnsetIgnored ==
    [][ CancelUnset =>
           /\ UNCHANGED <<queued, running, slots_available>>
           /\ loop' = "run" ]_vars

\* C39, in the form of the steps that make it true.  Once all jobs are
\* submitted, each with at most slots_total threads and with dependencies
\* on jobs that were active at its submission: while a job is left one is
\* running, so a DONE is due; the step that processes the DONE of a running
\* job keeps the loop going and the hypothesis true, leaves fewer jobs, and
\* leaves every queued job either queued, or promoted, or - when the code
\* is not 0 and the job descends from the one that ended - removed.  So
\* after at most N such steps both maps are empty, and every job has been
\* promoted or cascade-removed on the way.
C39_EveryJobLeaves ==
    /\ []((Submitted /\ Fit /\ num_jobs > 0) => DOMAIN running # {})
    /\ [][ \A id \in DOMAIN running, state \in ExitCodes :
             (Submitted /\ Fit /\ Done(id, state)) =>
                /\ loop' = "run"
                /\ Submitted' /\ Fit'
                /\ num_jobs' < num_jobs
                /\ id \notin Active(MNext)
                /\ DOMAIN running \ {id} \subseteq DOMAIN running'
                /\ \A q \in DOMAIN queued :
                      \/ q \in DOMAIN queued'
                      \/ q \in DOMAIN running'
                      \/ state # 0 /\ q \in Descendants(id) ]_vars

\* all jobs were submitted; one of them has ended, and a job that waited
\* for a job that ended with code 0 has been promoted and runs
C39_Witness ==
    /\ Submitted /\ Fit
    /\ num_jobs < MaxJobs
    /\ \E r \in DOMAIN running : r \in DOMAIN linked /\ linked[r] # {}

\* the Master is in drain mode and has no job
Drained == draining /\ active = 0

\* C40: a Master in drain mode with both maps empty takes nothing from the
\* request queue and replies to nothing - the only step it makes is its
\* exit - also right after the WAIT itself; once it has exited no Master
\* comes back, so what is pending on the request queue, such as the SUBMIT
\* of another client, stays there and no reply is ever put.
C40_DrainBeforeReceive ==
    /\ [][ (Drained /\ masters >= 1) =>
              /\ \A found \in BOOLEAN : ~master_takes(found)
              /\ master_response' = master_response
              /\ \/ master_requests' = master_requests
                 \/ \E x \in {"SUBMIT", "CANCEL"} :
                       master_requests' = Append(master_requests, x)
              /\ masters' # masters => master_drained \/ master_breaks ]_vars
    /\ [][ (Drained /\ masters = 0) =>
              /\ masters' = 0
              /\ Drained'
              /\ master_response' = master_response
              /\ \/ master_requests' = master_requests
                 \/ \E x \in {"SUBMIT", "CANCEL"} :
                       master_requests' = Append(master_requests, x) ]_vars

\* the Master took the WAIT with no job and has exited on its drain check;
\* wait() has returned; the SUBMIT another client put behind the WAIT is
\* still on the request queue and has no reply
C40_Witness ==
    /\ Drained /\ masters = 0
    /\ call = Call("wait", "returned", "None")
    /\ master_requests = <<"SUBMIT">>
    /\ master_response = << >>
====
